---- MODULE Spec2Model ----
(***************************************************************************)
(* Model of controllers/pkg/resources/resources.go: the price registry     *)
(* (PropertyTypeLS) and its encrypted bootstrap, the unit normalizer       *)
(* (GetResourceValue), the enum-id to name translation, the price fetch    *)
(* (GetPrices) and the Billing ledger records.                             *)
(***************************************************************************)
EXTENDS Integers, Sequences, FiniteSets, TLC

VARIABLES
    DefaultPropertyTypeList, \* the package-level slice (its backing array)
    DefaultPropertyTypeLS,   \* the package-level registry built at init
    types,                   \* the caller's slice (its backing array)
    returned,                \* registries handed out so far, oldest first
    call,                    \* the last registry call: operation, input, outcome
    conv,                    \* the last ConvertEnumUsedToString call
    val,                     \* the last GetResourceValue call
    ledger,                  \* Billing records, keyed by order id
    attempt,                 \* the last ledger operation and its outcome
    collection,              \* documents of the prices collection
    fetch                    \* the last GetPrices call

vars == <<DefaultPropertyTypeList, DefaultPropertyTypeLS, types, returned, call,
          conv, val, ledger, attempt, collection, fetch>>

registryVars == <<DefaultPropertyTypeList, DefaultPropertyTypeLS, types, returned, call>>
ledgerVars == <<ledger, attempt>>
fetchVars == <<collection, fetch>>

Min(a, b) == IF a < b THEN a ELSE b

(***************************************************************************)
(* int64 and float64.  TLC's integers are 32 bits wide, so an int64 is a   *)
(* sign and a magnitude written in binary, least significant bit first,    *)
(* with no leading zero bit; a float64 is mant * 2^exp with a sign.        *)
(* Magnitudes are divided and multiplied ten bits (one limb) at a time.    *)
(***************************************************************************)
RECURSIVE FromNat(_)
FromNat(n) == IF n = 0 THEN <<>> ELSE <<n % 2>> \o FromNat(n \div 2)

RECURSIVE ToNat(_)
ToNat(b) == IF b = <<>> THEN 0 ELSE b[1] + 2 * ToNat(Tail(b))

BitAt(b, i) == IF i <= Len(b) THEN b[i] ELSE 0

\* b without its leading zero bits
Norm(b) ==
    LET ones == {i \in 1..Len(b) : b[i] = 1}
    IN  IF ones = {} THEN <<>>
        ELSE SubSeq(b, 1, CHOOSE i \in ones : \A j \in ones : j <= i)

\* b + 1
Inc(b) ==
    LET zeros == {i \in 1..(Len(b) + 1) : BitAt(b, i) = 0}
        z == CHOOSE i \in zeros : \A j \in zeros : i <= j
    IN  [i \in 1..(IF z > Len(b) THEN z ELSE Len(b)) |->
            IF i < z THEN 0 ELSE IF i = z THEN 1 ELSE b[i]]

ShiftLeft(b, k) == IF b = <<>> THEN <<>> ELSE [i \in 1..k |-> 0] \o b

ShiftRight(b, k) == IF k >= Len(b) THEN <<>> ELSE SubSeq(b, k + 1, Len(b))

\* some of the k low bits of b is set
LowBits(b, k) == \E i \in 1..Min(k, Len(b)) : b[i] = 1

\* 2^k + n, for a natural n below 2^k
Pow2Plus(k, n) == [i \in 1..(k + 1) |-> IF i = k + 1 THEN 1 ELSE BitAt(FromNat(n), i)]

LimbBits == 10
LimbBase == 2 ^ LimbBits

Limbs(b) ==
    [j \in 1..((Len(b) + LimbBits - 1) \div LimbBits) |->
        ToNat([i \in 1..LimbBits |-> BitAt(b, LimbBits * (j - 1) + i)])]

Bits(ls) ==
    Norm([i \in 1..(LimbBits * Len(ls)) |->
        (ls[((i - 1) \div LimbBits) + 1] \div (2 ^ ((i - 1) % LimbBits))) % 2])

\* limbs of ls * n + carry, for a natural n below 2^20
RECURSIVE MulLimbs(_, _, _)
MulLimbs(ls, n, carry) ==
    IF ls = <<>> THEN (IF carry = 0 THEN <<>> ELSE <<carry % LimbBase>>
                                              \o MulLimbs(ls, n, carry \div LimbBase))
    ELSE LET t == ls[1] * n + carry
         IN  <<t % LimbBase>> \o MulLimbs(Tail(ls), n, t \div LimbBase)

MulNat(b, n) == Bits(MulLimbs(Limbs(b), n, 0))

\* quotient limbs and remainder of the limbs i.. of ls by d, 0 < d < 2^20
RECURSIVE DivLimbs(_, _, _)
DivLimbs(ls, i, d) ==
    IF i > Len(ls) THEN [q |-> <<>>, r |-> 0]
    ELSE LET hi == DivLimbs(ls, i + 1, d)
             t == hi.r * LimbBase + ls[i]
         IN  [q |-> <<t \div d>> \o hi.q, r |-> t % d]

\* the number of trailing zero bits of b # 0, and b without them
TwoExp(b) == (CHOOSE i \in 1..Len(b) : b[i] = 1 /\ \A j \in 1..(i - 1) : b[j] = 0) - 1
OddPart(b) == ShiftRight(b, TwoExp(b))

\* the quotient of the magnitude b by the magnitude d # 0 (whose odd part is
\* below 2^20), and whether the division leaves a remainder
DivMod(b, d) ==
    LET qr == DivLimbs(Limbs(ShiftRight(b, TwoExp(d))), 1, ToNat(OddPart(d)))
    IN  [q |-> Bits(qr.q), rem |-> qr.r # 0 \/ LowBits(b, TwoExp(d))]

Int64(neg, mag) == [neg |-> neg /\ mag # <<>>, mag |-> mag]

Int64Of(n) == Int64(n < 0, FromNat(IF n < 0 THEN -n ELSE n))

Zero64 == Int64(FALSE, <<>>)

\* the mathematical ceil(v / d) of two int64, d > 0
CeilDiv(v, d) ==
    LET qr == DivMod(v.mag, d.mag)
    IN  Int64(v.neg, IF ~v.neg /\ qr.rem THEN Inc(qr.q) ELSE qr.q)

\* IEEE 754 binary64: 53 bits of significand
MantBits == 53

\* round the magnitude b (with `sticky`: a non-zero part below its last bit)
\* to MantBits significant bits, to nearest, ties to even: mant * 2^exp
RoundNearestEven(b, sticky) ==
    IF Len(b) <= MantBits THEN [mant |-> b, exp |-> 0]
    ELSE LET s == Len(b) - MantBits
             kept == ShiftRight(b, s)
             half == b[s] = 1
             below == sticky \/ LowBits(b, s - 1)
             up == half /\ (below \/ kept[1] = 1)
         IN  [mant |-> IF up THEN Inc(kept) ELSE kept, exp |-> s]

\* the conversion float64(v) of an int64
Float64(v) ==
    LET r == RoundNearestEven(v.mag, FALSE)
    IN  [neg |-> v.neg, mant |-> r.mant, exp |-> r.exp]

\* bits of quotient computed before rounding: the divisor's odd part is below
\* 2^20, so the quotient of mant * 2^DivShift has more than MantBits + 2 bits
DivShift == MantBits + 23

\* the float64 division a / b of a by a positive b: the rounded quotient of a
\* by b's odd part, scaled by b's power of two
Float64Div(a, b) ==
    LET qr == DivMod(ShiftLeft(a.mant, DivShift), OddPart(b.mant))
        r == RoundNearestEven(qr.q, qr.rem)
    IN  [neg |-> a.neg, mant |-> r.mant,
         exp |-> r.exp + a.exp - DivShift - (TwoExp(b.mant) + b.exp)]

\* math.Ceil of a float64
Ceil(f) ==
    IF f.exp >= 0 THEN f
    ELSE LET ip == ShiftRight(f.mant, -f.exp)
             frac == LowBits(f.mant, -f.exp)
         IN  [neg |-> f.neg, mant |-> IF ~f.neg /\ frac THEN Inc(ip) ELSE ip, exp |-> 0]

\* the conversion int64(f) of an integral float64 below 2^63
ToInt64(f) == Int64(f.neg, ShiftLeft(f.mant, f.exp))

(***************************************************************************)
(* resource.Quantity: a value with a decimal scale and a format.  The      *)
(* quantities of this package are whole (scale 0) or milli (scale -3).     *)
(***************************************************************************)
ZeroQuantity == [value |-> Zero64, scale |-> 0, format |-> ""]

NewQuantity(value, format) == [value |-> value, scale |-> 0, format |-> format]

MilliQuantity(value) == [value |-> value, scale |-> -3, format |-> "DecimalSI"]

\* Quantity.MilliValue
MilliValue(q) ==
    IF q.scale = -3 THEN q.value ELSE Int64(q.value.neg, MulNat(q.value.mag, 1000))

\* the unit strings resource.MustParse accepts, among those of the model
ParseQuantity(str) ==
    CASE str = "1m" -> MilliQuantity(Int64Of(1))
      [] str = "1Mi" -> NewQuantity(Int64Of(1048576), "BinarySI")

\* a nil pointer
Nil == [nil |-> TRUE]

ResourceCPU == "cpu"
ResourceMemory == "memory"
ResourceStorage == "storage"
ResourceNetwork == "network"
ResourceGPU == "nvidia.com/gpu"
GpuResourcePrefix == "gpu-"

NewGpuResource(product) == GpuResourcePrefix \o product

IsGpuResource(resource) ==
    /\ Len(resource) >= Len(GpuResourcePrefix)
    /\ SubSeq(resource, 1, Len(GpuResourcePrefix)) = GpuResourcePrefix

GetGpuResourceProduct(resource) ==
    IF IsGpuResource(resource)
    THEN SubSeq(resource, Len(GpuResourcePrefix) + 1, Len(resource))
    ELSE resource

bin1Mi == NewQuantity(Int64Of(1048576), "BinarySI")
cpuUnit == ParseQuantity("1m")

PricesUnit ==
    (ResourceCPU :> cpuUnit) @@ (ResourceGPU :> cpuUnit) @@ (ResourceMemory :> bin1Mi)
        @@ (ResourceStorage :> bin1Mi) @@ (ResourceNetwork :> bin1Mi)

\* a Go map read: the zero value (a nil pointer) for a missing key
MapGet(m, k) == IF k \in DOMAIN m THEN m[k] ELSE Nil

Returns(v) == [panic |-> FALSE, value |-> v]
Panics == [panic |-> TRUE, value |-> Zero64]

\* GetResourceValue, had it read the divisor before looking at the quantity
GetResourceValueUnitFirst(resourceName, res) ==
    LET quantity == MapGet(res, resourceName)
        unit == MapGet(PricesUnit, resourceName)
    IN  IF unit = Nil THEN Panics
        ELSE IF quantity = Nil THEN Returns(Zero64)
        ELSE IF quantity.Quantity = Nil THEN Panics
        ELSE IF MilliValue(quantity.Quantity) = Zero64 THEN Returns(Zero64)
        ELSE Returns(ToInt64(Ceil(Float64Div(
                 Float64(MilliValue(quantity.Quantity)),
                 Float64(MilliValue(unit))))))

\* res maps a resource name to Nil (a nil *QuantityDetail) or to a
\* QuantityDetail, whose embedded *resource.Quantity is Nil or a Quantity
GetResourceValue(resourceName, res) ==
    LET quantity == MapGet(res, resourceName)
    IN  IF quantity = Nil THEN Returns(Zero64)
        ELSE IF quantity.Quantity = Nil THEN Panics
        ELSE IF MilliValue(quantity.Quantity) = Zero64 THEN Returns(Zero64)
        ELSE LET unit == MapGet(PricesUnit, resourceName)
             IN  IF unit = Nil THEN Panics
                 ELSE Returns(ToInt64(Ceil(Float64Div(
                          Float64(MilliValue(quantity.Quantity)),
                          Float64(MilliValue(unit))))))

(***************************************************************************)
(* The price registry.  A PropertyType is the record of its fields that    *)
(* the package reads or writes (Alias and UnitPeriod are never touched).   *)
(* A slice is a backing array and a length: Types of a registry is the     *)
(* slice it was built from, not a copy.                                    *)
(***************************************************************************)
PropertyType(name, enum, unitPrice, encrypted, unit, unitString) ==
    [Name |-> name, Enum |-> enum, PriceType |-> "AVG", UnitPrice |-> unitPrice,
     EncryptUnitPrice |-> encrypted, Unit |-> unit, UnitString |-> unitString]

\* the composite literal of DefaultPropertyTypeList, before package init
DefaultPropertyTypeListLiteral ==
    << PropertyType("cpu", 0, 67, "", ZeroQuantity, "1m"),
       PropertyType("memory", 1, 33, "", ZeroQuantity, "1Mi"),
       PropertyType("storage", 2, 2, "", ZeroQuantity, "1Mi"),
       PropertyType("network", 3, 781, "", ZeroQuantity, "1Mi") >>

\* crypto.DecryptInt64: the plaintext of a ciphertext, or an error
DecryptInt64(encrypted) ==
    CASE encrypted = "enc7" -> [err |-> FALSE, price |-> 7]
      [] encrypted = "enc9" -> [err |-> FALSE, price |-> 9]
      [] OTHER -> [err |-> TRUE, price |-> 0]

\* entry i of the slice fails: its ciphertext is empty or does not decrypt
DecryptFails(t) == t.EncryptUnitPrice = "" \/ DecryptInt64(t.EncryptUnitPrice).err

\* decryptPrice, had it skipped the entries that fail instead of returning
decryptPriceSkipFailed(ts, n) ==
    [types |-> [i \in DOMAIN ts |->
                  IF i <= n /\ ~DecryptFails(ts[i])
                  THEN [ts[i] EXCEPT !.UnitPrice = DecryptInt64(ts[i].EncryptUnitPrice).price]
                  ELSE ts[i]],
     err |-> FALSE]

\* decryptPrice, had it cleared the prices it wrote when a later entry fails
decryptPriceClearOnError(ts, n) ==
    LET bad == {i \in 1..n : DecryptFails(ts[i])}
    IN  [types |-> [i \in DOMAIN ts |->
                      IF i > n THEN ts[i]
                      ELSE [ts[i] EXCEPT !.UnitPrice =
                              IF bad # {} THEN 0
                              ELSE DecryptInt64(ts[i].EncryptUnitPrice).price]],
         err |-> bad # {}]

\* decryptPrice on the first n entries of the array ts: the array as the loop
\* leaves it (entries before the first failure rewritten in place) and the error
decryptPrice(ts, n) ==
    LET bad == {i \in 1..n : DecryptFails(ts[i])}
        stop == IF bad = {} THEN n + 1 ELSE CHOOSE i \in bad : \A j \in bad : i <= j
    IN  [types |-> [i \in DOMAIN ts |->
                      IF i < stop
                      THEN [ts[i] EXCEPT !.UnitPrice = DecryptInt64(ts[i].EncryptUnitPrice).price]
                      ELSE ts[i]],
         err |-> bad # {}]

\* the last of the first n entries of ts whose field has the value key: the
\* entry a map keyed by that field holds after the loop
LastIndex(ts, n, field, key) ==
    LET S == {i \in 1..n : ts[i][field] = key} IN CHOOSE i \in S : \A j \in S : j <= i

\* newPropertyTypeLS, had it keyed EnumMap by the loop index instead of Enum
newPropertyTypeLSIndexKey(ts, n) ==
    LET parsed == [i \in DOMAIN ts |->
                     IF i <= n /\ ts[i].Unit = ZeroQuantity /\ ts[i].UnitString # ""
                     THEN [ts[i] EXCEPT !.Unit = ParseQuantity(ts[i].UnitString)]
                     ELSE ts[i]]
    IN  [types |-> parsed,
         panic |-> FALSE,
         StringMap |-> [name \in {parsed[i].Name : i \in 1..n} |->
                          parsed[LastIndex(parsed, n, "Name", name)]],
         EnumMap |-> [enum \in 0..(n - 1) |-> parsed[enum + 1]]]

\* resource.MustParse panics on a string that is no quantity
CanParse(str) == str \in {"1m", "1Mi"}

\* newPropertyTypeLS, had it parsed every non-empty UnitString, also over a
\* Unit that is already set
newPropertyTypeLSAlwaysParse(ts, n) ==
    LET needs(i) == i <= n /\ ts[i].UnitString # ""
        bad == {i \in 1..n : needs(i) /\ ~CanParse(ts[i].UnitString)}
        stop == IF bad = {} THEN n + 1 ELSE CHOOSE i \in bad : \A j \in bad : i <= j
        parsed == [i \in DOMAIN ts |->
                     IF needs(i) /\ i < stop
                     THEN [ts[i] EXCEPT !.Unit = ParseQuantity(ts[i].UnitString)]
                     ELSE ts[i]]
        m == IF bad = {} THEN n ELSE 0
    IN  [types |-> parsed,
         panic |-> bad # {},
         StringMap |-> [name \in {parsed[i].Name : i \in 1..m} |->
                          parsed[LastIndex(parsed, m, "Name", name)]],
         EnumMap |-> [enum \in {parsed[i].Enum : i \in 1..m} |->
                          parsed[LastIndex(parsed, m, "Enum", enum)]]]

\* newPropertyTypeLS on the first n entries of the array ts: the array with the
\* units parsed in place (up to the entry MustParse panics on, if any), and the
\* two maps, each holding a copy of the last entry stored under the key
newPropertyTypeLS(ts, n) ==
    LET needs(i) == i <= n /\ ts[i].Unit = ZeroQuantity /\ ts[i].UnitString # ""
        bad == {i \in 1..n : needs(i) /\ ~CanParse(ts[i].UnitString)}
        stop == IF bad = {} THEN n + 1 ELSE CHOOSE i \in bad : \A j \in bad : i <= j
        parsed == [i \in DOMAIN ts |->
                     IF needs(i) /\ i < stop
                     THEN [ts[i] EXCEPT !.Unit = ParseQuantity(ts[i].UnitString)]
                     ELSE ts[i]]
        m == IF bad = {} THEN n ELSE 0
    IN  [types |-> parsed,
         panic |-> bad # {},
         StringMap |-> [name \in {parsed[i].Name : i \in 1..m} |->
                          parsed[LastIndex(parsed, m, "Name", name)]],
         EnumMap |-> [enum \in {parsed[i].Enum : i \in 1..m} |->
                          parsed[LastIndex(parsed, m, "Enum", enum)]]]

\* a registry: Types is a slice (array name and length), the maps are values
PropertyTypeLS(arr, n, built) ==
    [Types |-> [arr |-> arr, len |-> n], StringMap |-> built.StringMap, EnumMap |-> built.EnumMap]

\* the two backing arrays the package can reach, by name
Heap == [types |-> types, DefaultPropertyTypeList |-> DefaultPropertyTypeList]

Arrays == {"types", "DefaultPropertyTypeList"}

\* what a registry holds in the heap h: the entries of its Types slice, its maps
ContentsIn(h, ls) ==
    [Types |-> SubSeq(h[ls.Types.arr], 1, ls.Types.len),
     StringMap |-> ls.StringMap, EnumMap |-> ls.EnumMap]

Contents(ls) == ContentsIn(Heap, ls)

\* NewPropertyTypeLS on the slice arr[0:n] in the heap h: the heap it leaves,
\* the registry it returns, whether decryption failed, whether it panicked
NewPropertyTypeLS(h, arr, n) ==
    LET d == decryptPrice(h[arr], n)
        h1 == [h EXCEPT ![arr] = d.types]
        target == IF d.err THEN "DefaultPropertyTypeList" ELSE arr
        len == IF d.err THEN Len(h1.DefaultPropertyTypeList) ELSE n
        built == newPropertyTypeLS(h1[target], len)
    IN  [heap |-> [h1 EXCEPT ![target] = built.types],
         ls |-> PropertyTypeLS(target, len, built),
         err |-> d.err, panic |-> built.panic]

\* package init: var DefaultPropertyTypeLS = newPropertyTypeLS(DefaultPropertyTypeList)
PackageInit == newPropertyTypeLS(DefaultPropertyTypeListLiteral, Len(DefaultPropertyTypeListLiteral))

\* what the default registry holds once the package is initialised
DefaultContents ==
    [Types |-> PackageInit.types, StringMap |-> PackageInit.StringMap,
     EnumMap |-> PackageInit.EnumMap]

(***************************************************************************)
(* Bounds and inputs of the registry calls.                                *)
(***************************************************************************)
MaxLen == 2
MaxCalls == 2

NameEnums == {<<"cpu", 0>>, <<"memory", 1>>, <<"memory", 0>>}
Ciphertexts == {"", "garbage", "enc7"}
InputUnitPrice == 5
UnitStringOf(name) == IF name = "cpu" THEN "1m" ELSE "1Mi"

\* entries as a configuration delivers them: a name, an id, a ciphertext, a
\* unit string, no parsed unit, and a price field still to be overwritten
InputEntries ==
    {PropertyType(ne[1], ne[2], InputUnitPrice, c, ZeroQuantity, UnitStringOf(ne[1])) :
        ne \in NameEnums, c \in Ciphertexts}

InputLists == UNION {[1..k -> InputEntries] : k \in 0..MaxLen}

callIdle == [op |-> "init", arr |-> "DefaultPropertyTypeList", len |-> 0, input |-> <<>>,
             err |-> FALSE, panic |-> FALSE]
convIdle == [called |-> FALSE, costs |-> <<>>, costsMap |-> <<>>]
valIdle == [called |-> FALSE, resourceName |-> "", res |-> <<>>, ret |-> Returns(Zero64)]
attemptIdle == [op |-> "none"]
fetchIdle == [called |-> FALSE, outcome |-> "", ret |-> [prices |-> <<>>, err |-> FALSE, read |-> 0]]

\* the package after init, with the caller holding the list ts, the prices
\* collection holding docs, and the arguments of the pending pure calls
InitWith(ts, docs, c, v) ==
    /\ DefaultPropertyTypeList = PackageInit.types
    /\ DefaultPropertyTypeLS = PropertyTypeLS("DefaultPropertyTypeList",
                                   Len(DefaultPropertyTypeListLiteral), PackageInit)
    /\ types = ts
    /\ returned = <<>>
    /\ call = callIdle
    /\ conv = c
    /\ val = v
    /\ ledger = <<>>
    /\ attempt = attemptIdle
    /\ collection = docs
    /\ fetch = fetchIdle

\* a caller passes arr[0:n] to NewPropertyTypeLS
CallNewPropertyTypeLS ==
    \E arr \in Arrays : \E n \in 0..Len(Heap[arr]) :
        LET r == NewPropertyTypeLS(Heap, arr, n)
        IN  /\ Len(returned) < MaxCalls
            /\ types' = r.heap.types
            /\ DefaultPropertyTypeList' = r.heap.DefaultPropertyTypeList
            /\ returned' = IF r.panic THEN returned
                           ELSE Append(returned, [ls |-> r.ls, snap |-> ContentsIn(r.heap, r.ls)])
            /\ call' = [op |-> "NewPropertyTypeLS", arr |-> arr, len |-> n,
                         input |-> SubSeq(Heap[arr], 1, n), err |-> r.err, panic |-> r.panic]
            /\ UNCHANGED <<DefaultPropertyTypeLS, conv, val, ledger, attempt, collection, fetch>>

InitRegistry == \E ts \in InputLists : InitWith(ts, <<>>, convIdle, valIdle)

NextRegistry == CallNewPropertyTypeLS

SpecRegistry == InitRegistry /\ [][NextRegistry]_vars

(***************************************************************************)
(* Claims about the registry.                                              *)
(***************************************************************************)
LastReturned == returned[Len(returned)]

AllDecrypt(input) == \A i \in DOMAIN input : ~DecryptFails(input[i])

\* C1: NewPropertyTypeLS is all-or-nothing.  When every entry of the input has a
\* ciphertext that decrypts, the registry holds every input entry, in order,
\* with UnitPrice its decrypted value, and every map entry is one of them; when
\* any entry, wherever it sits, has no ciphertext or fails to decrypt, the
\* registry is the built-in default one (cpu=67, memory=33, storage=2,
\* network=781) and nothing of the input is in it.
C1_AllOrNothing ==
    (call.op = "NewPropertyTypeLS" /\ ~call.panic) =>
        LET c == Contents(LastReturned.ls)
            in == call.input
        IN  IF AllDecrypt(in)
            THEN /\ Len(c.Types) = Len(in)
                 /\ \A i \in DOMAIN in :
                      /\ c.Types[i].Name = in[i].Name
                      /\ c.Types[i].Enum = in[i].Enum
                      /\ c.Types[i].EncryptUnitPrice = in[i].EncryptUnitPrice
                      /\ c.Types[i].UnitPrice = DecryptInt64(in[i].EncryptUnitPrice).price
                 /\ DOMAIN c.StringMap = {in[i].Name : i \in DOMAIN in}
                 /\ DOMAIN c.EnumMap = {in[i].Enum : i \in DOMAIN in}
                 /\ \A k \in DOMAIN c.StringMap :
                      \E i \in DOMAIN in : c.StringMap[k] = c.Types[i] /\ in[i].Name = k
                 /\ \A k \in DOMAIN c.EnumMap :
                      \E i \in DOMAIN in : c.EnumMap[k] = c.Types[i] /\ in[i].Enum = k
            ELSE /\ c = DefaultContents
                 /\ [k \in DOMAIN c.StringMap |-> c.StringMap[k].UnitPrice]
                      = ("cpu" :> 67) @@ ("memory" :> 33) @@ ("storage" :> 2) @@ ("network" :> 781)
                 /\ \A i \in DOMAIN c.Types :
                      /\ c.Types[i].UnitPrice \in {67, 33, 2, 781}
                      /\ c.Types[i].EncryptUnitPrice = ""

\* a call whose first entry decrypts and whose last entry does not, so that the
\* input array holds a decrypted price and the registry returned is the default
C1_Witness ==
    /\ call.op = "NewPropertyTypeLS"
    /\ call.arr = "types"
    /\ call.len = 2
    /\ ~DecryptFails(call.input[1])
    /\ DecryptFails(call.input[2])
    /\ types[1].UnitPrice = 7
    /\ Contents(LastReturned.ls) = DefaultContents

\* C4: a registry is never changed after it was returned.  Every registry
\* handed out by NewPropertyTypeLS, and the default registry built by
\* newPropertyTypeLS at package init, holds the same Types entries, StringMap and
\* EnumMap as when it was returned, whatever calls followed.
C4_NeverMutated ==
    /\ \A i \in DOMAIN returned : Contents(returned[i].ls) = returned[i].snap
    /\ Contents(DefaultPropertyTypeLS) = DefaultContents

\* a registry was built from types[0:1]; a later call on the longer types[0:2],
\* the same backing array, failed on its second entry and fell back; a
\* translation and a normalization ran as well
C4_Witness ==
    /\ conv.called
    /\ val.called
    /\ Len(returned) = 2
    /\ returned[1].ls.Types = [arr |-> "types", len |-> 1]
    /\ call.arr = "types"
    /\ call.len = 2
    /\ call.err
    /\ returned[2].ls.Types.arr = "DefaultPropertyTypeList"

\* every registry built so far: those returned, with the entries each was
\* returned with, and the default one
Registries == {returned[i].snap : i \in DOMAIN returned} \cup {DefaultContents}

\* a Go map read of EnumMap: the zero PropertyType for a missing key
EnumMapGet(r, enum) ==
    IF enum \in DOMAIN r.EnumMap THEN r.EnumMap[enum]
    ELSE [PropertyType("", 0, 0, "", ZeroQuantity, "") EXCEPT !.PriceType = ""]

RoundTrip(r) ==
    \A name \in DOMAIN r.StringMap : EnumMapGet(r, r.StringMap[name].Enum).Name = name

\* no two entries of the list with different names share an Enum
EnumsDistinct(ts) ==
    \A i, j \in DOMAIN ts : ts[i].Enum = ts[j].Enum => ts[i].Name = ts[j].Name

\* C5 as stated: in every registry built from any list, every name round-trips,
\* EnumMap[StringMap[name].Enum].Name = name.
C5_RoundTripAnyList == \A r \in Registries : RoundTrip(r)

\* C5 as amended: every name round-trips in every registry built from a list in
\* which no two entries with different names share an Enum.
C5_RoundTripDistinctEnums == \A r \in Registries : EnumsDistinct(r.Types) => RoundTrip(r)

\* a registry built from two decrypted entries with different names and Enums
C5_Witness ==
    \E i \in DOMAIN returned :
        /\ returned[i].ls.Types = [arr |-> "types", len |-> 2]
        /\ returned[i].snap.Types[1].Name # returned[i].snap.Types[2].Name
        /\ returned[i].snap.Types[1].Enum # returned[i].snap.Types[2].Enum
        /\ RoundTrip(returned[i].snap)

(***************************************************************************)
(* The unit normalizer: calls of GetResourceValue.                         *)
(***************************************************************************)
MaxLow == 3

Products == {"tesla-v100", "a100"}

ResourceNames ==
    {ResourceCPU, ResourceGPU, ResourceMemory, ResourceStorage, ResourceNetwork,
     "ephemeral-storage"} \cup {NewGpuResource(p) : p \in Products}

\* 2^24 MiB, in milli-bytes
Mi16T == ShiftLeft(MilliValue(bin1Mi).mag, 24)

Quantities ==
    {MilliQuantity(Int64Of(n)) : n \in (0..MaxLow) \cup {1500, -1500}}
        \cup {NewQuantity(Int64Of(n), "BinarySI") :
                n \in {0, 1, 1048576, 10485760, 10485761, -1048577}}
        \cup {MilliQuantity(Int64(FALSE, Pow2Plus(MantBits, n))) : n \in 0..MaxLow}
        \cup {MilliQuantity(Int64(FALSE, Pow2Plus(MantBits - 1, n))) : n \in 0..MaxLow}
        \cup {NewQuantity(Int64(FALSE, Pow2Plus(MantBits - 1, n)), "BinarySI") : n \in 0..MaxLow}
        \cup {MilliQuantity(Int64(FALSE, Inc(Mi16T)))}

QuantityDetails == {Nil} \cup {[Quantity |-> q, Detail |-> ""] : q \in Quantities \cup {Nil}}

\* resource maps with no entry, or with one entry
ResourceMaps == {<<>>} \cup {k :> e : k \in ResourceNames, e \in QuantityDetails}

\* the caller's arguments are drawn at the start; the call applies the function
CallGetResourceValue ==
    /\ ~val.called
    /\ val' = [val EXCEPT !.called = TRUE,
                          !.ret = GetResourceValue(val.resourceName, val.res)]
    /\ UNCHANGED <<registryVars, conv, ledgerVars, fetchVars>>

InitValue ==
    \E resourceName \in ResourceNames : \E res \in ResourceMaps :
        InitWith(<<>>, <<>>, convIdle,
                 [called |-> FALSE, resourceName |-> resourceName, res |-> res,
                  ret |-> Returns(Zero64)])

NextValue == CallGetResourceValue

SpecValue == InitValue /\ [][NextValue]_vars

\* the last call was given a quantity with a non-zero milli-value
ValNonZero ==
    /\ val.called
    /\ MapGet(val.res, val.resourceName) # Nil
    /\ val.res[val.resourceName].Quantity # Nil
    /\ MilliValue(val.res[val.resourceName].Quantity) # Zero64

ValMilli == MilliValue(val.res[val.resourceName].Quantity)

\* C2: for every kind of the unit table and every quantity with a non-zero
\* milli-value v, GetResourceValue returns exactly ceil(v / d), d the milli-value
\* of the kind's divisor.
C2_ExactCeil ==
    (ValNonZero /\ val.resourceName \in DOMAIN PricesUnit) =>
        val.ret = Returns(CeilDiv(ValMilli, MilliValue(PricesUnit[val.resourceName])))

\* C6: a non-zero quantity of the resource NewGpuResource(p) is normalized with
\* the GPU divisor: the result is ceil(v / 1m).
C6_GpuByPrefix ==
    (ValNonZero /\ \E p \in Products : val.resourceName = NewGpuResource(p)) =>
        val.ret = Returns(CeilDiv(ValMilli, MilliValue(PricesUnit[ResourceGPU])))

\* C9: GetResourceValue returns 0, and does not fail, when the map has no entry
\* or a nil entry for the kind, or the entry's milli-value is zero, also for a
\* kind that has no divisor.
C9_MissingIsZero ==
    (/\ val.called
     /\ \/ MapGet(val.res, val.resourceName) = Nil
        \/ /\ val.res[val.resourceName].Quantity # Nil
           /\ MilliValue(val.res[val.resourceName].Quantity) = Zero64)
        => val.ret = Returns(Zero64)

\* a zero quantity of a kind that has no divisor was normalized to 0
C9_Witness ==
    /\ val.called
    /\ val.resourceName \notin DOMAIN PricesUnit
    /\ val.resourceName \in DOMAIN val.res
    /\ val.res[val.resourceName] # Nil
    /\ val.res[val.resourceName].Quantity = NewQuantity(Zero64, "BinarySI")
    /\ val.ret = Returns(Zero64)

(***************************************************************************)
(* The enum-id to name translation: calls of ConvertEnumUsedToString.      *)
(***************************************************************************)
MaxEnum == 5
MaxAmount == 2

\* ConvertEnumUsedToString(costs), reading the registry ls: the maps the loop
\* can leave.  A missing id reads the zero PropertyType, whose Name is "";
\* when several ids write one key, Go's map iteration order decides which
\* amount is written last.
ConvertEnumUsedToString(ls, costs) ==
    LET name(k) == EnumMapGet(ls, k).Name
        keys == {name(k) : k \in DOMAIN costs}
    IN  {m \in [keys -> {costs[k] : k \in DOMAIN costs}] :
            \A key \in keys : \E k \in DOMAIN costs : name(k) = key /\ m[key] = costs[k]}

CostsInputs == UNION {[S -> 1..MaxAmount] : S \in SUBSET (0..MaxEnum)}

CallConvertEnumUsedToString ==
    /\ ~conv.called
    /\ \E m \in ConvertEnumUsedToString(DefaultPropertyTypeLS, conv.costs) :
          conv' = [conv EXCEPT !.called = TRUE, !.costsMap = m]
    /\ UNCHANGED <<registryVars, val, ledgerVars, fetchVars>>

InitConvert ==
    \E costs \in CostsInputs :
        InitWith(<<>>, <<>>, [called |-> FALSE, costs |-> costs, costsMap |-> <<>>], valIdle)

NextConvert == CallConvertEnumUsedToString

SpecConvert == InitConvert /\ [][NextConvert]_vars

(***************************************************************************)
(* Every operation of the package together: registry calls interleaved     *)
(* with a translation and a normalization.                                 *)
(***************************************************************************)
FrameLists ==
    UNION {[1..k -> {e \in InputEntries : e.Enum = (IF e.Name = "cpu" THEN 0 ELSE 1)}] :
              k \in 0..MaxLen}

InitFrame ==
    \E ts \in FrameLists :
        InitWith(ts, <<>>,
                 [called |-> FALSE, costs |-> (0 :> 1) @@ (MaxEnum :> MaxAmount), costsMap |-> <<>>],
                 [called |-> FALSE, resourceName |-> ResourceCPU,
                  res |-> (ResourceCPU :> [Quantity |-> MilliQuantity(Int64Of(1500)), Detail |-> ""]),
                  ret |-> Returns(Zero64)])

NextFrame == CallNewPropertyTypeLS \/ CallConvertEnumUsedToString \/ CallGetResourceValue

SpecFrame == InitFrame /\ [][NextFrame]_vars

\* C3: the translation fails soft.  Every id of the input that the registry
\* knows appears in the result under its property name with its amount, and an
\* id the registry does not know leaves no entry under any key.
C3_FailSoft ==
    conv.called =>
        LET known == DOMAIN conv.costs \cap DOMAIN DefaultPropertyTypeLS.EnumMap
        IN  /\ \A k \in known :
                 /\ DefaultPropertyTypeLS.EnumMap[k].Name \in DOMAIN conv.costsMap
                 /\ conv.costsMap[DefaultPropertyTypeLS.EnumMap[k].Name] = conv.costs[k]
            /\ DOMAIN conv.costsMap = {DefaultPropertyTypeLS.EnumMap[k].Name : k \in known}

(***************************************************************************)
(* The Billing ledger.  The package declares the records and the two       *)
(* statuses; the steps that create and settle entries are modelled from    *)
(* the specification of the ledger.                                        *)
(***************************************************************************)
Unsettled == 0
Settled == 1

MaxOrders == 2

BillingTypes == {"Consumption", "Transfer", "Recharge"}

Payments == {Nil, [Method |-> "wechat", UserID |-> "u", Amount |-> 1]}
Transfers == {Nil, [From |-> "a", To |-> "b", Amount |-> 1]}
Amounts == {1, 2}
AppCosts == <<[Name |-> "app-a", Amount |-> 1], [Name |-> "app-b", Amount |-> 1]>>

Billing(orderID, type, amount, appCosts, status, payment, transfer) ==
    [OrderID |-> orderID, Type |-> type, AppCosts |-> appCosts, Amount |-> amount,
     Status |-> status, Payment |-> payment, Transfer |-> transfer]

RECURSIVE SumAmounts(_)
SumAmounts(appCosts) ==
    IF appCosts = <<>> THEN 0 ELSE Head(appCosts).Amount + SumAmounts(Tail(appCosts))

\* the type discriminator: Consumption carries a Payment and no Transfer,
\* Transfer carries a Transfer and no Payment
TypeDiscriminated(b) ==
    /\ b.Type = "Consumption" => (b.Payment # Nil /\ b.Transfer = Nil)
    /\ b.Type = "Transfer" => (b.Transfer # Nil /\ b.Payment = Nil)

\* the validation, had it only required the sub-record the type names
ValidBillingPresenceOnly(b) ==
    /\ b.Type = "Consumption" => b.Payment # Nil
    /\ b.Type = "Transfer" => b.Transfer # Nil
    /\ b.AppCosts # <<>> => b.Amount = SumAmounts(b.AppCosts)

\* the validation of a Billing at construction
ValidBilling(b) ==
    /\ TypeDiscriminated(b)
    /\ b.AppCosts # <<>> => b.Amount = SumAmounts(b.AppCosts)

\* the billing-generation step constructs an entry under a fresh order id: a
\* record that violates the ledger invariants is rejected, one that passes is
\* appended Unsettled
NewBilling ==
    \E orderID \in (1..MaxOrders) \ DOMAIN ledger :
    \E type \in BillingTypes, amount \in Amounts, payment \in Payments, transfer \in Transfers :
        LET b == Billing(orderID, type, amount, AppCosts, Unsettled, payment, transfer)
        IN  /\ ledger' = IF ValidBilling(b) THEN ledger @@ (orderID :> b) ELSE ledger
            /\ attempt' = [op |-> "NewBilling", billing |-> b, rejected |-> ~ValidBilling(b)]
            /\ UNCHANGED <<registryVars, conv, val, fetchVars>>

\* settlement, had it flipped the status instead of setting it
SettleToggle ==
    \E orderID \in DOMAIN ledger :
        /\ ledger' = [ledger EXCEPT ![orderID].Status = Settled - ledger[orderID].Status]
        /\ attempt' = [op |-> "Settle", billing |-> ledger[orderID], rejected |-> FALSE]
        /\ UNCHANGED <<registryVars, conv, val, fetchVars>>

\* the settlement process settles an entry; settling a Settled entry changes nothing
Settle ==
    \E orderID \in DOMAIN ledger :
        /\ ledger' = [ledger EXCEPT ![orderID].Status = Settled]
        /\ attempt' = [op |-> "Settle", billing |-> ledger[orderID], rejected |-> FALSE]
        /\ UNCHANGED <<registryVars, conv, val, fetchVars>>

NextLedger == NewBilling \/ Settle

SpecLedger == InitWith(<<>>, <<>>, convIdle, valIdle) /\ [][NextLedger]_vars

\* C7: construction validates the type discriminator.  A record of type
\* Consumption without a Payment or with a Transfer, or of type Transfer without
\* a Transfer or with a Payment, is rejected and never enters the ledger.
C7_TypeDiscriminated ==
    /\ \A o \in DOMAIN ledger :
         /\ ledger[o].Type = "Consumption" =>
              (ledger[o].Payment # Nil /\ ledger[o].Transfer = Nil)
         /\ ledger[o].Type = "Transfer" =>
              (ledger[o].Transfer # Nil /\ ledger[o].Payment = Nil)
    /\ (attempt.op = "NewBilling" /\ ~TypeDiscriminated(attempt.billing)) =>
         (attempt.rejected /\ attempt.billing.OrderID \notin DOMAIN ledger)

\* a Consumption record carrying both sub-records was rejected while the ledger
\* holds an accepted entry
C7_Witness ==
    /\ attempt.op = "NewBilling"
    /\ attempt.rejected
    /\ attempt.billing.Type = "Consumption"
    /\ attempt.billing.Payment # Nil
    /\ attempt.billing.Transfer # Nil
    /\ ledger # <<>>

\* C8: settlement is one-way.  An entry enters the ledger Unsettled; the only
\* change an entry ever sees is Unsettled to Settled with every other field
\* kept; a Settled entry is left as it is by every step, a second settlement
\* included.
C8_SettlementOneWay ==
    [][/\ \A o \in DOMAIN ledger' \ DOMAIN ledger : ledger'[o].Status = Unsettled
       /\ \A o \in DOMAIN ledger :
            /\ o \in DOMAIN ledger'
            /\ \/ ledger'[o] = ledger[o]
               \/ /\ ledger[o].Status = Unsettled
                  /\ ledger'[o] = [ledger[o] EXCEPT !.Status = Settled]]_vars

\* a Settled entry went through a second settlement and is as it was
C8_Witness ==
    /\ attempt.op = "Settle"
    /\ attempt.billing.Status = Settled
    /\ attempt.billing.AppCosts # <<>>
    /\ ledger[attempt.billing.OrderID] = attempt.billing

(***************************************************************************)
(* The price fetch: GetPrices against the prices collection.               *)
(***************************************************************************)
MaxDocs == 3

Price(property, price) == [Property |-> property, Price |-> price, Detail |-> ""]

PriceDocs == {Price(p, n) : p \in {"cpu", "memory"}, n \in {67, 33}}

Collections == UNION {[1..k -> PriceDocs] : k \in 0..MaxDocs}

\* how the store answers within the 5 s of the context: Find fails (an error,
\* the store unreachable, the deadline), or cursor.All fails after k documents
\* reached the local slice, or both succeed
FetchOutcomes == {"findError", "findTimeout", "cursorError", "cursorTimeout", "ok"}

\* GetPrices, had it returned the local slice together with the cursor's error
GetPricesLeakPartial(docs, outcome, k) ==
    IF outcome \in {"findError", "findTimeout"} THEN [prices |-> <<>>, err |-> TRUE, read |-> 0]
    ELSE IF outcome \in {"cursorError", "cursorTimeout"}
    THEN [prices |-> SubSeq(docs, 1, k), err |-> TRUE, read |-> k]
    ELSE [prices |-> docs, err |-> FALSE, read |-> Len(docs)]

\* GetPrices: the slice and the error returned (a nil slice is the empty one),
\* and how many documents had reached the local slice
GetPrices(docs, outcome, k) ==
    IF outcome \in {"findError", "findTimeout"} THEN [prices |-> <<>>, err |-> TRUE, read |-> 0]
    ELSE IF outcome \in {"cursorError", "cursorTimeout"}
    THEN [prices |-> <<>>, err |-> TRUE, read |-> k]
    ELSE [prices |-> docs, err |-> FALSE, read |-> Len(docs)]

CallGetPrices ==
    \E outcome \in FetchOutcomes : \E k \in 0..Len(collection) :
        /\ fetch' = [called |-> TRUE, outcome |-> outcome, ret |-> GetPrices(collection, outcome, k)]
        /\ UNCHANGED <<registryVars, conv, val, ledgerVars, collection>>

InitFetch == \E docs \in Collections : InitWith(<<>>, docs, convIdle, valIdle)

NextFetch == CallGetPrices

SpecFetch == InitFetch /\ [][NextFetch]_vars

\* C10: the price fetch fails closed.  GetPrices returns the complete list and
\* no error, or an error and no list; a find or a cursor that fails or times
\* out never hands the caller the documents read so far.
C10_FailClosed ==
    fetch.called =>
        /\ fetch.ret.err <=> fetch.outcome # "ok"
        /\ IF fetch.ret.err THEN fetch.ret.prices = <<>>
           ELSE fetch.ret.prices = collection

\* the cursor timed out after some but not all documents were read, and the
\* caller got an error and no list
C10_Witness ==
    /\ fetch.called
    /\ fetch.outcome = "cursorTimeout"
    /\ fetch.ret.read > 0
    /\ fetch.ret.read < Len(collection)
    /\ fetch.ret.err
    /\ fetch.ret.prices = <<>>

(***************************************************************************)
(* Unit parsing: registries built from entries whose Unit is unset or      *)
(* already parsed, and whose UnitString is empty, a quantity, or no        *)
(* quantity at all.                                                        *)
(***************************************************************************)
UnitInputs ==
    {<<ZeroQuantity, "">>, <<ZeroQuantity, "1m">>, <<ParseQuantity("1m"), "1Mi">>,
     <<ZeroQuantity, "bogus">>}

\* entries that decrypt, so that the list itself is the one built from
UnitEntries ==
    {PropertyType(ne[1], ne[2], InputUnitPrice, "enc7", u[1], u[2]) :
        ne \in {<<"cpu", 0>>, <<"memory", 1>>}, u \in UnitInputs}

UnitLists == UNION {[1..k -> UnitEntries] : k \in 0..MaxLen}

InitUnits == \E ts \in UnitLists : InitWith(ts, <<>>, convIdle, valIdle)

NextUnits == CallNewPropertyTypeLS

SpecUnits == InitUnits /\ [][NextUnits]_vars

\* the Unit the build leaves in an entry that came in as t
UnitAfterBuild(t) ==
    IF t.Unit = ZeroQuantity /\ t.UnitString # "" THEN ParseQuantity(t.UnitString) ELSE t.Unit

\* C11: building a registry parses unit strings idempotently.  A build that
\* completes on the input list sets an entry's Unit from its UnitString only
\* when the entry came in with no Unit and a non-empty UnitString, and leaves
\* every other Unit (and every UnitString) as it came in, in Types and in both
\* maps; two builds from the same list yield the same registry.
C11_ParseIdempotent ==
    /\ (call.op = "NewPropertyTypeLS" /\ ~call.panic /\ ~call.err) =>
          LET c == Contents(LastReturned.ls)
              in == call.input
          IN  /\ Len(c.Types) = Len(in)
              /\ \A i \in DOMAIN in :
                    /\ c.Types[i].Unit = UnitAfterBuild(in[i])
                    /\ c.Types[i].UnitString = in[i].UnitString
              /\ \A k \in DOMAIN c.StringMap :
                    \E i \in DOMAIN in : in[i].Name = k /\ c.StringMap[k].Unit = UnitAfterBuild(in[i])
              /\ \A k \in DOMAIN c.EnumMap :
                    \E i \in DOMAIN in : in[i].Enum = k /\ c.EnumMap[k].Unit = UnitAfterBuild(in[i])
    /\ \A i, j \in DOMAIN returned :
          returned[i].ls.Types = returned[j].ls.Types =>
              /\ returned[i].snap = returned[j].snap
              /\ Contents(returned[i].ls) = Contents(returned[j].ls)

\* the list was built twice: its first entry came with a parsed Unit of 1m
\* beside the UnitString "1Mi" and kept it, its second came with no Unit and
\* has the one parsed from "1m"
C11_Witness ==
    /\ Len(returned) = 2
    /\ returned[1].ls.Types = [arr |-> "types", len |-> 2]
    /\ returned[2].ls.Types = [arr |-> "types", len |-> 2]
    /\ call.input[1].Unit = ParseQuantity("1m")
    /\ call.input[1].UnitString = "1Mi"
    /\ returned[1].snap.Types[1].Unit = ParseQuantity("1m")
    /\ returned[2].snap.Types[2].UnitString = "1m"
    /\ returned[2].snap.Types[2].Unit = ParseQuantity("1m")
    /\ returned[2].snap = returned[1].snap

====
